---- MODULE Spec2Model ----
(***************************************************************************)
(* Model of skills/nano-banana-pro/scripts/generate_image.py: one run of   *)
(* main() as a sequential state machine.  The state is the parsed          *)
(* arguments, the local variables of main(), the file system the run acts  *)
(* on, the requests sent to the remote API, what was printed, and the      *)
(* exit status.                                                            *)
(***************************************************************************)
EXTENDS Integers, Sequences, FiniteSets, TLC

VARIABLES
    pc,                \* position in main()
    count,             \* args.count
    filename,          \* args.filename (optional path)
    out_dir,           \* args.out_dir (optional path)
    resolution,        \* args.resolution
    input_image_arg,   \* args.input_image together with the file it names
    api_key,           \* api_key (line 168)
    output_dir,        \* output_dir (lines 187 / 190)
    output_resolution, \* output_resolution (lines 195-210)
    input_image,       \* input_image is not None (line 198)
    i,                 \* loop index of `for i in range(args.count)`
    output_path,       \* output_path of the latest iteration
    generated_images,  \* generated_images (line 217)
    requests,          \* the calls issued to the remote API, in order
    errors,            \* iterations (1-based) reported as an error on stderr
    media,             \* the `MEDIA: <path>` lines printed on stdout
    report,            \* the final `Generated k/n images` line, if printed
    prompts_json,      \* the array serialised to prompts.json
    dirs,              \* directories of the file system
    files,             \* files of the file system
    exit_code          \* exit status of the process

vars == <<pc, count, filename, out_dir, resolution, input_image_arg, api_key,
          output_dir, output_resolution, input_image, i, output_path,
          generated_images, requests, errors, media, report, prompts_json,
          dirs, files, exit_code>>

(***************************************************************************)
(* Bounds of the model.                                                    *)
(***************************************************************************)
MaxCount == 2
MaxParts == 2

(***************************************************************************)
(* Python values.                                                          *)
(***************************************************************************)
None == "<None>"

Truthy(s) == s # None /\ s # ""

\* pathlib.Path: an absolute flag and the components.
P(abs, parts) == [abs |-> abs, parts |-> parts]

Dot == P(FALSE, <<>>)

\* an optional path argument: not given is None
NoArg == [given |-> FALSE, path |-> Dot]

Arg(p) == [given |-> TRUE, path |-> p]

Cwd == P(TRUE, <<"cwd">>)

\* Path.parent
Parent(p) ==
    IF p.parts = <<>> THEN p
    ELSE P(p.abs, SubSeq(p.parts, 1, Len(p.parts) - 1))

\* Path.name
Name(p) == IF p.parts = <<>> THEN "" ELSE p.parts[Len(p.parts)]

\* Path.__truediv__: an absolute right operand replaces the left one
Join(a, b) == IF b.abs THEN b ELSE P(a.abs, a.parts \o b.parts)

\* Path.resolve
Resolve(p) == IF p.abs THEN p ELSE P(TRUE, Cwd.parts \o p.parts)

Ancestors(p) ==
    {P(TRUE, SubSeq(Resolve(p).parts, 1, k)) : k \in 0..Len(Resolve(p).parts)}

\* Path.mkdir(parents=True, exist_ok=True)
Mkdir(ds, p) == ds \cup Ancestors(p)

InitDirs == Ancestors(Cwd)

\* the file system holds one file per path: a write replaces the file there
WriteFile(fs, p, kind) ==
    {f \in fs : f.path # Resolve(p)} \cup {[path |-> Resolve(p), kind |-> kind]}

PngFiles == {f \in files : f.kind = "PNG"}

(***************************************************************************)
(* Inputs of a run.                                                        *)
(***************************************************************************)
Counts == -1..MaxCount

FilenameArgs ==
    {NoArg,
     Arg(P(FALSE, <<"x.png">>)),
     Arg(P(FALSE, <<"sub", "x.png">>)),
     Arg(P(TRUE, <<"abs", "x.png">>))}

OutDirArgs == {NoArg, Arg(P(FALSE, <<"out">>))}

Resolutions == {"1K", "2K", "4K"}

DefaultResolution == "1K"

AspectRatio == "1:1"

Omitted == "<omitted>"

Prompt == "a cute robot"

Model == "gemini-2.0-flash-preview-image-generation"

\* --input-image and the image file it names
NoImage == [given |-> FALSE, readable |-> FALSE, width |-> 0, height |-> 0]

ImageFile(w, h) == [given |-> TRUE, readable |-> TRUE, width |-> w, height |-> h]

InputImageArgs ==
    {NoImage,
     [given |-> TRUE, readable |-> FALSE, width |-> 0, height |-> 0],
     ImageFile(1499, 600), ImageFile(1500, 1200), ImageFile(1200, 2999),
     ImageFile(3000, 1800), ImageFile(1800, 3200)}

\* --api-key and GEMINI_API_KEY
ProvidedKeys == {None, "", "key"}

EnvKeys == {None, "", "key"}

\* datetime.now().strftime("%Y%m%d-%H%M%S"), for the instant of the run
Timestamp == "YYYYMMDD-HHMMSS"

\* the parts of a response: a text part, or inline image data that decodes
\* (valid) or makes PILImage.open raise
TextPart(t) == [kind |-> "text", text |-> t, valid |-> TRUE]

ImagePart(ok) == [kind |-> "inline_data", text |-> None, valid |-> ok]

Parts == {TextPart("a"), TextPart("b"), ImagePart(TRUE), ImagePart(FALSE)}

PartSeqs == UNION {[1..n -> Parts] : n \in 0..MaxParts}

\* generate_content either raises or returns a response
Responses ==
    {[raised |-> TRUE, parts |-> <<>>]}
        \cup {[raised |-> FALSE, parts |-> ps] : ps \in PartSeqs}

(***************************************************************************)
(* Helpers of main().                                                      *)
(***************************************************************************)
get_api_key(provided_key, env_key) ==
    IF Truthy(provided_key) THEN provided_key ELSE env_key

\* the check of line 159 left out
BatchWithoutOutDirDropped == FALSE

\* line 159
BatchWithoutOutDir == count > 1 /\ ~out_dir.given

\* line 163
SingleWithoutTarget == count = 1 /\ ~filename.given /\ ~out_dir.given

\* the timestamped directory kept for batch runs only
UseOutDirBatchOnly == out_dir.given /\ count > 1

\* line 185
UseOutDir == out_dir.given

\* the thresholds taken as strict
AutoResolutionStrict(width, height) ==
    LET max_dim == IF width >= height THEN width ELSE height
    IN  IF max_dim > 3000 THEN "4K"
        ELSE IF max_dim > 1500 THEN "2K"
        ELSE "1K"

\* lines 203-210
AutoResolution(width, height) ==
    LET max_dim == IF width >= height THEN width ELSE height
    IN  IF max_dim >= 3000 THEN "4K"
        ELSE IF max_dim >= 1500 THEN "2K"
        ELSE "1K"

\* line 202
AutoDetects == resolution = "1K"

Digit(d) == <<"0", "1", "2", "3", "4", "5", "6", "7", "8", "9">>[d + 1]

\* f"image-{n:03d}.png"
BatchFilename(n) ==
    "image-" \o Digit((n \div 100) % 10) \o Digit((n \div 10) % 10)
        \o Digit(n % 10) \o ".png"

\* lines 220-231
OutputPath(idx) ==
    IF count > 1 THEN Join(output_dir, P(FALSE, <<BatchFilename(idx + 1)>>))
    ELSE IF filename.given
         THEN IF filename.path.abs THEN filename.path
              ELSE Join(output_dir, filename.path)
         ELSE Join(output_dir, P(FALSE, <<"image.png">>))

\* lines 243-245
Request(idx) ==
    [index |-> idx + 1,
     image_size |-> output_resolution,
     aspect_ratio |-> IF input_image THEN Omitted ELSE AspectRatio,
     editing |-> input_image]

\* Image.save: the directory of the file must exist
CanWrite(path) == Resolve(Parent(path)) \in dirs

\* lines 286-294
Entry(path, text) ==
    [filename |-> Name(path),
     path |-> Resolve(path),
     prompt |-> Prompt,
     resolution |-> output_resolution,
     aspect_ratio |-> AspectRatio,
     model |-> Model,
     model_text |-> text]

\* lines 260-294: the loop over response.parts, left at the first exception
RECURSIVE ProcessParts(_, _, _, _)
ProcessParts(parts, k, path, st) ==
    IF k > Len(parts) \/ st.raised THEN st
    ELSE IF parts[k].kind = "text"
    THEN ProcessParts(parts, k + 1, path, [st EXCEPT !.model_text = parts[k].text])
    ELSE IF ~parts[k].valid \/ ~CanWrite(path)
    THEN [st EXCEPT !.raised = TRUE]
    ELSE ProcessParts(parts, k + 1, path,
             [st EXCEPT !.fs = WriteFile(st.fs, path, "PNG"),
                        !.image_saved = TRUE,
                        !.images = Append(st.images, Entry(path, st.model_text))])

\* the MEDIA line printed in batch runs too
EmitsMediaAlways == TRUE

\* line 299
EmitsMedia == count = 1

\* a failed iteration ending a batch run too
FatalOnErrorAlways == TRUE

\* lines 304 and 309
FatalOnError == count = 1

\* lines 319-328
PromptsData(images) ==
    [k \in 1..Len(images) |->
        [filename |-> images[k].filename,
         prompt |-> images[k].prompt,
         resolution |-> images[k].resolution,
         aspect_ratio |-> images[k].aspect_ratio,
         model |-> images[k].model,
         model_text |-> images[k].model_text]]

(***************************************************************************)
(* The run.                                                                *)
(***************************************************************************)
\* The arguments of a run come in two families: every count, filename and
\* out-dir with the default resolution and no input image; and every
\* resolution and input image for a single-image and a batch invocation.
\* The other variables are the locals of main() before its first statement.
Init ==
    /\ pc = "validate"
    /\ \/ /\ count \in Counts
          /\ filename \in FilenameArgs
          /\ out_dir \in OutDirArgs
          /\ resolution = DefaultResolution
          /\ input_image_arg = NoImage
       \/ /\ \/ count = 1 /\ filename = Arg(P(FALSE, <<"x.png">>)) /\ out_dir = NoArg
             \/ count = MaxCount /\ filename = NoArg /\ out_dir = Arg(P(FALSE, <<"out">>))
          /\ resolution \in Resolutions
          /\ input_image_arg \in InputImageArgs
    /\ api_key = None
    /\ output_dir = Dot
    /\ output_resolution = DefaultResolution
    /\ input_image = FALSE
    /\ i = 0
    /\ output_path = Dot
    /\ generated_images = <<>>
    /\ requests = <<>>
    /\ errors = {}
    /\ media = <<>>
    /\ report = <<>>
    /\ prompts_json = <<>>
    /\ dirs = InitDirs
    /\ files = {}
    /\ exit_code = 0

Exit(code) == pc' = "done" /\ exit_code' = code

\* lines 158-165
Validate ==
    /\ pc = "validate"
    /\ IF BatchWithoutOutDir \/ SingleWithoutTarget
       THEN Exit(1)
       ELSE pc' = "key" /\ UNCHANGED exit_code
    /\ UNCHANGED <<count, filename, out_dir, resolution, input_image_arg,
                   api_key, output_dir, output_resolution, input_image, i,
                   output_path, generated_images, requests, errors,
                   media, report, prompts_json, dirs, files>>

\* lines 167-174
ResolveKey ==
    /\ pc = "key"
    /\ \E provided_key \in ProvidedKeys, env_key \in EnvKeys :
          /\ api_key' = get_api_key(provided_key, env_key)
          /\ IF ~Truthy(api_key')
             THEN Exit(1)
             ELSE pc' = "outdir" /\ UNCHANGED exit_code
    /\ UNCHANGED <<count, filename, out_dir, resolution, input_image_arg,
                   output_dir, output_resolution, input_image, i,
                   output_path, generated_images, requests, errors,
                   media, report, prompts_json, dirs, files>>

\* lines 181-191; Path(None) raises TypeError, which ends the process
SetupOutputDir ==
    /\ pc = "outdir"
    /\ IF UseOutDir
       THEN /\ output_dir' =
                 Join(out_dir.path, P(FALSE, <<"nano-banana-" \o Timestamp>>))
            /\ dirs' = Mkdir(dirs, output_dir')
            /\ pc' = "load"
            /\ UNCHANGED exit_code
       ELSE IF ~filename.given
       THEN Exit(1) /\ UNCHANGED <<output_dir, dirs>>
       ELSE /\ output_dir' = Parent(filename.path)
            /\ dirs' = Mkdir(dirs, output_dir')
            /\ pc' = "load"
            /\ UNCHANGED exit_code
    /\ UNCHANGED <<count, filename, out_dir, resolution, input_image_arg,
                   api_key, output_resolution, input_image, i,
                   output_path, generated_images, requests, errors,
                   media, report, prompts_json, files>>

\* lines 193-217
LoadInputImage ==
    /\ pc = "load"
    /\ IF ~input_image_arg.given
       THEN /\ output_resolution' = resolution
            /\ pc' = "loop"
            /\ UNCHANGED <<input_image, exit_code>>
       ELSE IF ~input_image_arg.readable
       THEN /\ output_resolution' = resolution
            /\ Exit(1)
            /\ UNCHANGED input_image
       ELSE /\ input_image' = TRUE
            /\ output_resolution' =
                 IF AutoDetects
                 THEN AutoResolution(input_image_arg.width, input_image_arg.height)
                 ELSE resolution
            /\ pc' = "loop"
            /\ UNCHANGED exit_code
    /\ UNCHANGED <<count, filename, out_dir, resolution, input_image_arg,
                   api_key, output_dir, i, output_path,
                   generated_images, requests, errors, media, report,
                   prompts_json, dirs, files>>

\* lines 219-310: one iteration of the loop
GenerateWith(resp) ==
    /\ pc = "loop"
    /\ i < count
    /\    LET path == OutputPath(i)
              st0 == [model_text |-> None, image_saved |-> FALSE,
                      images |-> generated_images, fs |-> files,
                      raised |-> resp.raised]
              st == ProcessParts(resp.parts, 1, path, st0)
              failed == st.raised \/ ~st.image_saved
          IN  /\ output_path' = path
              /\ requests' = Append(requests, Request(i))
              /\ generated_images' = st.images
              /\ files' = st.fs
              /\ errors' = IF failed THEN errors \cup {i + 1} ELSE errors
              /\ media' = IF ~failed /\ EmitsMedia
                          THEN Append(media, Resolve(path))
                          ELSE media
              /\ IF failed /\ FatalOnError
                 THEN Exit(1) /\ UNCHANGED i
                 ELSE i' = i + 1 /\ UNCHANGED <<pc, exit_code>>
    /\ UNCHANGED <<count, filename, out_dir, resolution, input_image_arg,
                   api_key, output_dir, output_resolution, input_image,
                   report, prompts_json, dirs>>

Generate == \E resp \in Responses : GenerateWith(resp)

\* lines 312-339, and the return from main()
Finalize ==
    /\ pc = "loop"
    /\ i >= count
    /\ IF count > 1
       THEN IF generated_images = <<>>
            THEN Exit(1) /\ UNCHANGED <<prompts_json, files, report>>
            ELSE \E no_gallery \in BOOLEAN :
                    LET prompts_path == Join(output_dir, P(FALSE, <<"prompts.json">>))
                        html_path == Join(output_dir, P(FALSE, <<"index.html">>))
                        fs1 == WriteFile(files, prompts_path, "JSON")
                    IN  /\ prompts_json' = PromptsData(generated_images)
                        /\ files' = IF no_gallery THEN fs1
                                    ELSE WriteFile(fs1, html_path, "HTML")
                        /\ report' = <<[generated |-> Len(generated_images),
                                        requested |-> count]>>
                        /\ Exit(0)
       ELSE Exit(0) /\ UNCHANGED <<prompts_json, files, report>>
    /\ UNCHANGED <<count, filename, out_dir, resolution, input_image_arg,
                   api_key, output_dir, output_resolution, input_image, i,
                   output_path, generated_images, requests, errors,
                   media, dirs>>

Next ==
    \/ Validate
    \/ ResolveKey
    \/ SetupOutputDir
    \/ LoadInputImage
    \/ Generate
    \/ Finalize

Spec == Init /\ [][Next]_vars

(***************************************************************************)
(* Properties.                                                             *)
(***************************************************************************)
ValidationFails ==
    \/ count > 1 /\ ~out_dir.given
    \/ count = 1 /\ ~filename.given /\ ~out_dir.given

NothingDone == dirs = InitDirs /\ files = {} /\ requests = <<>>

\* C1: a run whose arguments fail validation, or for which no API key is
\* resolved, goes no further than the credential check: it exits non-zero and
\* has created no directory, written no file and issued no remote call.
C1_FailFast ==
    (ValidationFails \/ ~Truthy(api_key)) =>
        /\ NothingDone
        /\ pc \in {"validate", "key", "done"}
        /\ pc = "done" => exit_code # 0

C1_Witness ==
    /\ pc = "done"
    /\ count > 1
    /\ out_dir.given
    /\ api_key = ""
    /\ exit_code = 1

Succeeded == count - Cardinality(errors)

\* C2: a finished batch run in which n - s >= 1 of the n calls were not
\* reported as failed exits 0, reports "Generated (n-s)/n images" and
\* prompts.json holds exactly n - s entries, never more than n.
C2_BatchReport ==
    (pc = "done" /\ count > 1 /\ out_dir.given /\ Len(requests) = count
        /\ Succeeded >= 1) =>
        /\ exit_code = 0
        /\ report = <<[generated |-> Succeeded, requested |-> count]>>
        /\ Len(prompts_json) = Succeeded
        /\ Len(prompts_json) <= count

\* C3: the PNG files on disk are as many as the recorded images, and an
\* iteration reported as an error leaves no file at its output path and no
\* recorded entry.
C3_OnePngPerSuccess ==
    /\ Cardinality(PngFiles) = Len(generated_images)
    /\ \A n \in errors :
          /\ \A f \in files : f.path # Resolve(OutputPath(n - 1))
          /\ \A k \in 1..Len(generated_images) :
                generated_images[k].path # Resolve(OutputPath(n - 1))

\* C4: a single-image run that exits 0 has printed exactly one MEDIA line,
\* with the absolute path of a PNG file that exists; a run that exits
\* non-zero and a batch run print no MEDIA line.
C4_MediaLine ==
    /\ (pc = "done" /\ count = 1 /\ exit_code = 0) =>
          /\ Len(media) = 1
          /\ media[1].abs
          /\ [path |-> media[1], kind |-> "PNG"] \in files
    /\ (pc = "done" /\ exit_code # 0) => media = <<>>
    /\ count > 1 => media = <<>>

C4_Witness ==
    /\ pc = "done"
    /\ count = 1
    /\ exit_code = 0
    /\ Len(media) = 1
    /\ filename.given

\* C5: with count = 1 the first failed iteration ends the run non-zero; with
\* count = n > 1 the calls are issued one per index, in index order, whatever
\* failed before, a run that reaches the loop ends after exactly n calls, and
\* it exits non-zero exactly when no image was written.
C5_FailurePolicy ==
    /\ \A k \in 1..Len(requests) : requests[k].index = k
    /\ (count = 1 /\ errors # {}) =>
          pc = "done" /\ exit_code # 0 /\ Len(requests) = 1
    /\ (count > 1 /\ pc = "loop") => Len(requests) = i /\ i <= count
    /\ (count > 1 /\ pc = "done" /\ requests # <<>>) =>
          /\ Len(requests) = count
          /\ exit_code # 0 <=> PngFiles = {}

C5_Witness ==
    /\ pc = "done"
    /\ count > 1
    /\ 1 \in errors
    /\ Len(requests) = count
    /\ exit_code = 0

ExpectedResolution ==
    IF ~input_image_arg.given \/ resolution \in {"2K", "4K"}
    THEN resolution
    ELSE IF input_image_arg.width >= 3000 \/ input_image_arg.height >= 3000
    THEN "4K"
    ELSE IF input_image_arg.width >= 1500 \/ input_image_arg.height >= 1500
    THEN "2K"
    ELSE "1K"

\* C6: every request carries the requested resolution when there is no
\* input image or 2K/4K was requested, and otherwise the resolution given by
\* the longer edge of the input image (4K from 3000, 2K from 1500, else 1K);
\* all requests of a run carry the same one.
C6_EffectiveResolution ==
    \A k \in 1..Len(requests) : requests[k].image_size = ExpectedResolution

C6_Witness ==
    /\ count > 1
    /\ Len(requests) = count
    /\ resolution = "1K"
    /\ input_image_arg = ImageFile(3000, 1800)
    /\ requests[count].image_size = "4K"

TimestampDirs == {d \in dirs : Name(d) = "nano-banana-" \o Timestamp}

HasImagePart(parts) == \E k \in 1..Len(parts) : parts[k].kind = "inline_data"

TextIndexes(parts) == {k \in 1..Len(parts) : parts[k].kind = "text"}

LastText(parts) ==
    IF TextIndexes(parts) = {} THEN None
    ELSE parts[CHOOSE k \in TextIndexes(parts) :
                   \A j \in TextIndexes(parts) : j <= k].text

\* C8: every entry recorded for a response with an image part carries as
\* model_text the last text part of the whole response, or null when the
\* response has no text part.
C8_LastTextWins ==
    [][\A resp \in Responses :
          (GenerateWith(resp) /\ HasImagePart(resp.parts)) =>
             \A k \in (Len(generated_images) + 1)..Len(generated_images') :
                generated_images'[k].model_text = LastText(resp.parts)]_vars

\* C9: in a single-image run with --filename and no --out-dir the image is
\* written to the filename itself, in the directory created before the loop.
C9_WritesToFilename ==
    (count = 1 /\ filename.given /\ ~out_dir.given /\ requests # <<>>) =>
        /\ output_path = filename.path
        /\ Parent(output_path) = output_dir
        /\ Resolve(Parent(output_path)) \in dirs

\* C10: a run that exits 0 has written at least one PNG file.
C10_ExitZeroHasImage ==
    (pc = "done" /\ exit_code = 0) => PngFiles # {}
====
